---- MODULE Spec2Model ----
(***************************************************************************)
(* dynamic-syscall: a state-machine model of src/main.rs.                  *)
(*                                                                         *)
(* Text is modelled as a sequence of one-character strings, so that the    *)
(* lexer, the number parser and the argument caster are computed on the    *)
(* characters as the program computes them.  A machine word is a record    *)
(* [ptr, v]: v is the numeric value of a number, or the index in the heap  *)
(* of the leaked buffer a string address points to.                        *)
(***************************************************************************)
EXTENDS Integers, Sequences, FiniteSets, TLC

\* ------------------------------------------------------------------ bounds

\* Width of the machine word (usize) of the model.
WordBits == 16

\* Lines read from the script file before end of file.
MaxLines == 3

\* Command-line argument tokens after the syscall number.
MaxCliArgs == 7

MaxWord == 2 ^ WordBits - 1

\* ------------------------------------------------------------- characters

COMMENT_STR == <<"#">>

KW == <<"s", "y", "s", "c", "a", "l", "l">>

Digits == {"0", "1", "2", "3", "4", "5", "6", "7", "8", "9"}

DigitVal(c) ==
    CASE c = "0" -> 0 [] c = "1" -> 1 [] c = "2" -> 2 [] c = "3" -> 3
      [] c = "4" -> 4 [] c = "5" -> 5 [] c = "6" -> 6 [] c = "7" -> 7
      [] c = "8" -> 8 [] c = "9" -> 9

\* #[logos(skip r"[ \t\n\f]+")]
IsWs(c) == c \in {" ", "\t", "\n", "\f"}

\* str::starts_with at position pos.
StartsWithAt(s, p, pos) ==
    /\ pos + Len(p) - 1 <= Len(s)
    /\ SubSeq(s, pos, pos + Len(p) - 1) = p

\* ------------------------------------------------------------ number parse

\* The digit loop of usize::from_str: -1 on an invalid digit or on overflow.
RECURSIVE ParseDigits(_, _, _)
ParseDigits(s, i, acc) ==
    IF i > Len(s) THEN acc
    ELSE IF s[i] \notin Digits THEN -1
    ELSE LET n == acc * 10 + DigitVal(s[i])
         IN  IF n > MaxWord THEN -1 ELSE ParseDigits(s, i + 1, n)

\* str::parse::<usize>: an optional '+', then one or more digits; a '-' is an
\* invalid digit of an unsigned type.  -1 stands for Err.
ParseUsize(s) ==
    IF Len(s) = 0 THEN -1
    ELSE IF s[1] \in {"+", "-"} /\ Len(s) = 1 THEN -1
    ELSE IF s[1] = "+" THEN ParseDigits(s, 2, 0)
    ELSE ParseDigits(s, 1, 0)

\* ------------------------------------------------------------------- lexer

RECURSIVE SkipWs(_, _)
SkipWs(s, pos) ==
    IF pos <= Len(s) /\ IsWs(s[pos]) THEN SkipWs(s, pos + 1) ELSE pos

\* Last position of the digit run that starts at pos (pos - 1 when empty).
RECURSIVE DigitRunEnd(_, _)
DigitRunEnd(s, pos) ==
    IF pos <= Len(s) /\ s[pos] \in Digits THEN DigitRunEnd(s, pos + 1) ELSE pos - 1

\* Position of the first double quote at or after pos, 0 when there is none.
RECURSIVE FindQuote(_, _)
FindQuote(s, pos) ==
    IF pos > Len(s) THEN 0
    ELSE IF s[pos] = "\"" THEN pos
    ELSE FindQuote(s, pos + 1)

Tok(kind, slice, next) == [kind |-> kind, slice |-> slice, next |-> next]

\* One step of the generated lexer at a non-whitespace position.
NextToken(s, pos) ==
    IF StartsWithAt(s, KW, pos)
    THEN Tok("Syscall", KW, pos + Len(KW))
    ELSE IF s[pos] \in Digits
    THEN Tok("Number", SubSeq(s, pos, DigitRunEnd(s, pos)), DigitRunEnd(s, pos) + 1)
    ELSE IF s[pos] \in {"+", "-"} /\ DigitRunEnd(s, pos + 1) > pos
    THEN Tok("Number", SubSeq(s, pos, DigitRunEnd(s, pos + 1)), DigitRunEnd(s, pos + 1) + 1)
    ELSE IF s[pos] = "\"" /\ FindQuote(s, pos + 1) # 0
    THEN Tok("String", SubSeq(s, pos, FindQuote(s, pos + 1)), FindQuote(s, pos + 1) + 1)
    ELSE Tok("Error", <<s[pos]>>, pos + 1)

\* The tokens the lexer yields for a line, up to and including the first error
\* (add_call panics on it and asks for no further token).
RECURSIVE TokenizeFrom(_, _)
TokenizeFrom(s, pos) ==
    LET p == SkipWs(s, pos)
    IN  IF p > Len(s) THEN <<>>
        ELSE LET t == NextToken(s, p)
             IN  IF t.kind = "Error" THEN <<t>>
                 ELSE <<t>> \o TokenizeFrom(s, t.next)

Tokenize(s) == TokenizeFrom(s, 1)

\* str::replace of a two-character pattern by one character.
RECURSIVE Replace2(_, _, _)
Replace2(s, pat, c) ==
    IF Len(s) = 0 THEN <<>>
    ELSE IF StartsWithAt(s, pat, 1)
    THEN <<c>> \o Replace2(SubSeq(s, 3, Len(s)), pat, c)
    ELSE <<s[1]>> \o Replace2(SubSeq(s, 2, Len(s)), pat, c)

parse_string_literal(string) ==
    Replace2(Replace2(SubSeq(string, 2, Len(string) - 1), <<"\\", "n">>, "\n"),
             <<"\\", "t">>, "\t")

\* ---------------------------------------------------------- argument caster

\* A machine word: a number, or the address of the heap buffer number v.
NumWord(n) == [ptr |-> FALSE, v |-> n]
PtrWord(k) == [ptr |-> TRUE, v |-> k]

ToLower(c) == CASE c = "S" -> "s" [] c = "N" -> "n" [] OTHER -> c

\* CastArg::get_type_hint_str over CastArg::iter().
TypeHints == {"s", "n"}

is_type_hint(arg) == ToLower(arg[1]) \in TypeHints

CastErr(heap) == [ok |-> FALSE, word |-> NumWord(0), heap |-> heap]
CastOk(word, heap) == [ok |-> TRUE, word |-> word, heap |-> heap]

\* CastArg::new followed by get_usize.  The text after "t:" is leaked to the
\* heap before the hint is looked at.
CastArgNew(arg, heap) ==
    IF Len(arg) < 3 THEN CastErr(heap)
    ELSE IF ~is_type_hint(arg) THEN CastErr(heap)
    ELSE LET owned == SubSeq(arg, 3, Len(arg))
             h == Append(heap, owned)
         IN  IF arg[1] = "s" THEN CastOk(PtrWord(Len(h)), h)
             ELSE IF arg[1] = "n"
             THEN IF ParseUsize(owned) = -1 THEN CastErr(h)
                  ELSE CastOk(NumWord(ParseUsize(owned)), h)
             ELSE CastErr(h)

\* arg.splitn(2, ':') yields two pieces exactly when the argument holds a ':'.
HasSeparator(arg) == \E i \in 1..Len(arg) : arg[i] = ":"

\* The platform's syscall table (x86_64: the contiguous low range).
SysnoTable == 0..334

\* Variant: every number resolves (the lookup left to the call itself).
SysnoNewAny(n) == TRUE

\* Sysno::new(n).is_some()
SysnoNew(n) == n \in SysnoTable

\* Variant: the truncation keeps the last 6 words.
KeepLast6(args) ==
    IF Len(args) > 6 THEN SubSeq(args, Len(args) - 5, Len(args)) ELSE args

\* Vec::truncate(6)
Truncate6(args) == IF Len(args) > 6 THEN SubSeq(args, 1, 6) ELSE args

\* ------------------------------------------------------------------ add_call

HasError(toks) == \E i \in 1..Len(toks) : toks[i].kind = "Error"

\* Variant: the is_syscall guard is dropped.
AlwaysStatement(toks) == TRUE

\* is_syscall after the token loop: some token of the line is the keyword.
IsSyscall(toks) == \E i \in 1..Len(toks) : toks[i].kind = "Syscall"

\* syscall_buffer after the token loop: the Number and String tokens in order,
\* string literals unquoted and unescaped.
SyscallBuffer(toks) ==
    LET rest == SelectSeq(toks, LAMBDA t : t.kind # "Syscall")
    IN  [i \in 1..Len(rest) |->
            [kind |-> rest[i].kind,
             text |-> IF rest[i].kind = "String"
                      THEN parse_string_literal(rest[i].slice)
                      ELSE rest[i].slice]]

\* The loop that fills sc_final_args: a Number is parsed (a failure panics), a
\* String is leaked and its address pushed.
RECURSIVE FinalArgs(_, _, _, _)
FinalArgs(buf, i, heap, acc) ==
    IF i > Len(buf) THEN [ok |-> TRUE, words |-> acc, heap |-> heap]
    ELSE IF buf[i].kind = "Number"
    THEN IF ParseUsize(buf[i].text) = -1
         THEN [ok |-> FALSE, words |-> acc, heap |-> heap]
         ELSE FinalArgs(buf, i + 1, heap, Append(acc, NumWord(ParseUsize(buf[i].text))))
    ELSE FinalArgs(buf, i + 1, Append(heap, buf[i].text),
                   Append(acc, PtrWord(Len(heap) + 1)))

NoCall == [sysno |-> 0, args |-> <<>>, line |-> 0]

Panic(why, heap) == [status |-> "panic", why |-> why, call |-> NoCall, heap |-> heap]

\* The outcome of add_call on one line: a panic, nothing, or one deferred call.
\* A leaked address used as the syscall number is no entry of the table.
AddCall(text, line, heap) ==
    LET toks == Tokenize(text)
        buf == SyscallBuffer(toks)
        fin == FinalArgs(buf, 1, heap, <<>>)
    IN  IF HasError(toks) THEN Panic("tokenize", heap)
        ELSE IF IsSyscall(toks) /\ (Len(buf) > 7 \/ Len(buf) = 0)
        THEN Panic("count", heap)
        ELSE IF ~IsSyscall(toks)
        THEN [status |-> "skip", why |-> "", call |-> NoCall, heap |-> heap]
        ELSE IF ~fin.ok THEN Panic("number", fin.heap)
        ELSE IF fin.words[1].ptr \/ ~SysnoNew(fin.words[1].v)
        THEN Panic("sysno", fin.heap)
        ELSE [status |-> "call", why |-> "",
              call |-> [sysno |-> fin.words[1].v, args |-> Tail(fin.words),
                        line |-> line],
              heap |-> fin.heap]

\* ------------------------------------------------------------------- inputs

SP == <<" ">>
Q == <<"\"">>

LComment == <<"#", " ", "c">>
LBlank == <<>>
LGetpid == KW \o SP \o <<"3", "9">>
LWrite == KW \o SP \o <<"1">> \o SP \o <<"1">> \o SP \o Q \o <<"h", "i", "\\", "n">> \o Q
LUnknown == KW \o SP \o <<"9", "9", "9">>
LNegative == KW \o SP \o <<"1">> \o SP \o <<"-", "1">>
LOverflow == KW \o SP \o <<"1">> \o SP \o <<"7", "0", "0", "0", "0">>
LGarbage == <<"e", "x", "i", "t">>
LUnterminated == KW \o SP \o <<"1">> \o SP \o Q \o <<"h", "i">>
LNoKeyword == <<"-", "1">> \o SP \o Q \o <<"x">> \o Q
LKeywordOnly == KW
LKeywordLate == <<"1">> \o SP \o KW \o SP \o <<"2">>
LStringId == KW \o SP \o Q \o <<"h", "i">> \o Q \o SP \o <<"1">>
Six == <<" ", "1", " ", "2", " ", "3", " ", "4", " ", "5", " ", "6">>
LSix == KW \o SP \o <<"6", "0">> \o Six
LSeven == LSix \o <<" ", "7">>
LEight == LSix \o <<" ", "7", " ", "8">>

LinePool ==
    {LComment, LBlank, LGetpid, LWrite, LUnknown, LNegative, LOverflow, LGarbage,
     LUnterminated, LNoKeyword, LKeywordOnly, LKeywordLate, LStringId, LSix,
     LSeven, LEight}

\* args[1] of the command line.
SysnoArgPool == {<<"3", "9">>, <<"9", "9", "9">>, <<"-", "1">>, <<"x">>}

\* args[2..] of the command line.
ArgPool ==
    {<<"s", ":", "a">>, <<"n", ":", "1">>, <<"n", ":", "+", "2">>,
     <<"n", ":", "-", "1">>, <<"q", ":", "1">>, <<"S", ":", "a">>, <<"x">>}

Outcomes == {"Ok", "Err"}

\* -------------------------------------------------------------------- state

VARIABLES
    mode,       \* "none", "cli" or "script": the branch main took
    pc,         \* where the program is
    file,       \* the lines read from the script so far
    calls,      \* lex's vector of deferred calls
    callIdx,    \* deferred calls consumed by interpret
    heap,       \* the leaked string buffers, in allocation order
    argv,       \* the command-line arguments read so far (after the program name)
    sysno,      \* parse_args' syscall number
    cast_args,  \* parse_args' cast arguments
    invoked,    \* the system calls issued, in order
    out         \* the reports printed for them, in order

vars == <<mode, pc, file, calls, callIdx, heap, argv, sysno, cast_args, invoked, out>>

Init ==
    /\ mode = "none"
    /\ pc = "main"
    /\ file = <<>>
    /\ calls = <<>>
    /\ callIdx = 0
    /\ heap = <<>>
    /\ argv = <<>>
    /\ sysno = 0
    /\ cast_args = <<>>
    /\ invoked = <<>>
    /\ out = <<>>

\* ------------------------------------------------------------- script mode

\* main -> begin_file -> lex: the file is open and no line is read yet.
BeginFile ==
    /\ pc = "main"
    /\ mode' = "script"
    /\ pc' = "lex"
    /\ UNCHANGED <<file, calls, callIdx, heap, argv, sysno, cast_args, invoked, out>>

\* Variant: a failure of add_call is swallowed and the scan goes on.
LexLineNoAbort(text) ==
    /\ pc = "lex"
    /\ Len(file) < MaxLines
    /\ file' = Append(file, text)
    /\ IF StartsWithAt(text, COMMENT_STR, 1)
       THEN UNCHANGED <<pc, calls, heap>>
       ELSE LET r == AddCall(text, Len(file) + 1, heap)
            IN  /\ pc' = "lex"
                /\ calls' = IF r.status = "call" THEN Append(calls, r.call) ELSE calls
                /\ heap' = r.heap
    /\ UNCHANGED <<mode, callIdx, argv, sysno, cast_args, invoked, out>>

\* One iteration of lex's loop over reader.lines(): a comment line is skipped,
\* any other line goes through add_call, whose panic ends the process.
LexLine(text) ==
    /\ pc = "lex"
    /\ Len(file) < MaxLines
    /\ file' = Append(file, text)
    /\ IF StartsWithAt(text, COMMENT_STR, 1)
       THEN UNCHANGED <<pc, calls, heap>>
       ELSE LET r == AddCall(text, Len(file) + 1, heap)
            IN  /\ pc' = IF r.status = "panic" THEN "panicked" ELSE "lex"
                /\ calls' = IF r.status = "call" THEN Append(calls, r.call) ELSE calls
                /\ heap' = r.heap
    /\ UNCHANGED <<mode, callIdx, argv, sysno, cast_args, invoked, out>>

\* End of file: lex hands the vector to interpret.
EndOfFile ==
    /\ pc = "lex"
    /\ pc' = "interpret"
    /\ UNCHANGED <<mode, file, calls, callIdx, heap, argv, sysno, cast_args, invoked, out>>

\* Variant: the vector is consumed from its end.
NextCallReversed(cs, k) == cs[Len(cs) - k]

\* calls.into_iter(): the element after the k consumed ones.
NextCall(cs, k) == cs[k + 1]

\* What invoke_syscall_interpret prints for a call recorded with `line`.
Report(outcome, line) ==
    IF outcome = "Ok" THEN [kind |-> "returned", line |-> line + 1]
    ELSE [kind |-> "failed"]

\* Variant: a failed call ends the run.
InvokeHaltingOnError(outcome) ==
    /\ pc = "interpret"
    /\ callIdx < Len(calls)
    /\ LET c == NextCall(calls, callIdx)
       IN  /\ invoked' = Append(invoked, [sysno |-> c.sysno, args |-> c.args,
                                          outcome |-> outcome])
           /\ out' = Append(out, Report(outcome, c.line))
    /\ callIdx' = callIdx + 1
    /\ pc' = IF outcome = "Err" THEN "done" ELSE pc
    /\ UNCHANGED <<mode, file, calls, heap, argv, sysno, cast_args>>

\* One iteration of interpret's loop: the closure runs invoke_syscall_interpret,
\* which issues the call and prints its result or its error, and returns.
InvokeSyscallInterpret(outcome) ==
    /\ pc = "interpret"
    /\ callIdx < Len(calls)
    /\ LET c == NextCall(calls, callIdx)
       IN  /\ invoked' = Append(invoked, [sysno |-> c.sysno, args |-> c.args,
                                          outcome |-> outcome])
           /\ out' = Append(out, Report(outcome, c.line))
    /\ callIdx' = callIdx + 1
    /\ UNCHANGED <<mode, pc, file, calls, heap, argv, sysno, cast_args>>

\* interpret's loop is over: lex, begin_file and main return.
InterpretDone ==
    /\ pc = "interpret"
    /\ callIdx = Len(calls)
    /\ pc' = "done"
    /\ UNCHANGED <<mode, file, calls, callIdx, heap, argv, sysno, cast_args, invoked, out>>

\* ---------------------------------------------------------------- CLI mode

\* main -> begin_arguments -> parse_args.
BeginArguments ==
    /\ pc = "main"
    /\ mode' = "cli"
    /\ pc' = "parse_args"
    /\ UNCHANGED <<file, calls, callIdx, heap, argv, sysno, cast_args, invoked, out>>

\* args.len() < 2
NotEnoughArguments ==
    /\ pc = "parse_args"
    /\ pc' = "cli_err"
    /\ UNCHANGED <<mode, file, calls, callIdx, heap, argv, sysno, cast_args, invoked, out>>

\* args[1] is parsed and looked up in the table.
ParseSysno(a) ==
    /\ pc = "parse_args"
    /\ argv' = <<a>>
    /\ IF ParseUsize(a) = -1 \/ ~SysnoNew(ParseUsize(a))
       THEN pc' = "cli_err" /\ UNCHANGED sysno
       ELSE pc' = "cli_args" /\ sysno' = ParseUsize(a)
    /\ UNCHANGED <<mode, file, calls, callIdx, heap, cast_args, invoked, out>>

\* One iteration of the loop over args[2..].
CastNextArg(arg) ==
    /\ pc = "cli_args"
    /\ Len(argv) - 1 < MaxCliArgs
    /\ argv' = Append(argv, arg)
    /\ IF ~HasSeparator(arg)
       THEN pc' = "cli_err" /\ UNCHANGED <<heap, cast_args>>
       ELSE LET r == CastArgNew(arg, heap)
            IN  /\ heap' = r.heap
                /\ pc' = IF r.ok THEN "cli_args" ELSE "cli_err"
                /\ cast_args' = IF r.ok THEN Append(cast_args, r.word) ELSE cast_args
    /\ UNCHANGED <<mode, file, calls, callIdx, sysno, invoked, out>>

\* The loop is over: the words are truncated, packed, and begin_arguments
\* issues the call and prints its result or its error.
InvokeFromArguments(outcome) ==
    /\ pc = "cli_args"
    /\ invoked' = <<[sysno |-> sysno, args |-> Truncate6(cast_args),
                     outcome |-> outcome]>>
    /\ out' = <<[kind |-> IF outcome = "Ok" THEN "returned" ELSE "failed"]>>
    /\ pc' = "done"
    /\ UNCHANGED <<mode, file, calls, callIdx, heap, argv, sysno, cast_args>>

\* ------------------------------------------------------------ specification

Next ==
    \/ BeginFile
    \/ \E text \in LinePool : LexLine(text)
    \/ EndOfFile
    \/ \E outcome \in Outcomes : InvokeSyscallInterpret(outcome)
    \/ InterpretDone
    \/ BeginArguments
    \/ NotEnoughArguments
    \/ \E a \in SysnoArgPool : ParseSysno(a)
    \/ \E arg \in ArgPool : CastNextArg(arg)
    \/ \E outcome \in Outcomes : InvokeFromArguments(outcome)

Spec == Init /\ [][Next]_vars

\* ------------------------------------------------- vocabulary of the claims

IsComment(text) == StartsWithAt(text, COMMENT_STR, 1)

\* What a word denotes: its number, or the text its address points to.
Resolve(w, h) ==
    IF w.ptr THEN [isStr |-> TRUE, text |-> h[w.v], num |-> 0]
    ELSE [isStr |-> FALSE, text |-> <<>>, num |-> w.v]

ResolveAll(ws, h) == [i \in 1..Len(ws) |-> Resolve(ws[i], h)]

\* A call was recorded for line number i of the file.
Recorded(i) == \E k \in 1..Len(calls) : calls[k].line = i

CallOfLine(i) == calls[CHOOSE k \in 1..Len(calls) : calls[k].line = i]

\* The scan aborted on line number i.
AbortedAt(i) == pc = "panicked" /\ i = Len(file)

\* The statement a deferred call record denotes, its string arguments as text.
Denoted(c, h) == [sysno |-> c.sysno, args |-> ResolveAll(c.args, h)]

LineFails(text) == ~IsComment(text) /\ AddCall(text, 0, <<>>).status = "panic"

LineRecords(text) == ~IsComment(text) /\ AddCall(text, 0, <<>>).status = "call"

\* The statements of the file's syscall lines, in line order.
RECURSIVE ExpectedCalls(_)
ExpectedCalls(f) ==
    IF Len(f) = 0 THEN <<>>
    ELSE LET r == AddCall(f[1], 0, <<>>)
         IN  (IF ~IsComment(f[1]) /\ r.status = "call"
              THEN <<Denoted(r.call, r.heap)>> ELSE <<>>)
             \o ExpectedCalls(Tail(f))

\* The line numbers of the file's syscall lines, in order.
RECURSIVE StatementLines(_, _)
StatementLines(f, i) ==
    IF i > Len(f) THEN <<>>
    ELSE (IF LineRecords(f[i]) THEN <<i>> ELSE <<>>) \o StatementLines(f, i + 1)

\* keyword, number, then numbers that parse and strings: a statement as the
\* grammar writes it (the argument count left open).
StatementTokens(toks) ==
    /\ ~HasError(toks)
    /\ Len(toks) >= 2
    /\ toks[1].kind = "Syscall"
    /\ toks[2].kind = "Number"
    /\ \A i \in 2..Len(toks) :
          /\ toks[i].kind \in {"Number", "String"}
          /\ toks[i].kind = "Number" => ParseUsize(toks[i].slice) # -1

IdOf(toks) == ParseUsize(toks[2].slice)

ArgCount(toks) == Len(toks) - 2

\* The text holds the keyword nowhere.
NoKeywordLine(text) ==
    /\ ~IsComment(text)
    /\ \A pos \in 1..Len(text) : ~StartsWithAt(text, KW, pos)

\* "n:-<digits>" with a magnitude in 1..MaxWord.
IsNegativeArg(arg) ==
    /\ Len(arg) >= 4
    /\ SubSeq(arg, 1, 3) = <<"n", ":", "-">>
    /\ ParseDigits(arg, 4, 0) \in 1..MaxWord

IsNegativeToken(t) ==
    /\ t.kind = "Number"
    /\ t.slice[1] = "-"
    /\ ParseDigits(t.slice, 2, 0) \in 1..MaxWord

\* The command-line tokens after the syscall number.
CliTokens == SubSeq(argv, 2, Len(argv))

Castable(arg) == HasSeparator(arg) /\ CastArgNew(arg, <<>>).ok

ExpectedWord(arg) ==
    LET r == CastArgNew(arg, <<>>) IN Resolve(r.word, r.heap)

\* ------------------------------------------------------------------- claims

\* C1: in script mode no system call is issued before the whole file has been
\* scanned, and when a line of the file fails in the first pass (tokenization,
\* number parse, unknown syscall number, token count) none is issued at all,
\* not even for the valid syscall lines before the failing one.
C1_NoInvocationUnlessScanSucceeds ==
    mode = "script" =>
        /\ (\E i \in 1..Len(file) : LineFails(file[i])) => invoked = <<>>
        /\ invoked # <<>> => pc \in {"interpret", "done"}

C1_Witness ==
    /\ mode = "script"
    /\ pc = "panicked"
    /\ Len(calls) >= 1
    /\ LineFails(file[Len(file)])

\* C2: in script mode the calls issued are the statements of the file's syscall
\* lines in line order, each once: the k-th call issued carries the number and
\* the arguments (strings by their text) of the k-th syscall line, and when the
\* run is over there are as many calls issued as syscall lines.
C2_InvocationsFollowFileOrder ==
    (mode = "script" /\ (invoked # <<>> \/ pc = "done")) =>
        LET expected == ExpectedCalls(file)
        IN  /\ Len(invoked) <= Len(expected)
            /\ \A k \in 1..Len(invoked) : Denoted(invoked[k], heap) = expected[k]
            /\ pc = "done" => Len(invoked) = Len(expected)

C2_Witness ==
    /\ mode = "script"
    /\ pc = "done"
    /\ Len(invoked) >= 2
    /\ invoked[1].sysno # invoked[2].sysno
    /\ \E k \in 1..Len(invoked) : \E j \in 1..Len(invoked[k].args) :
          invoked[k].args[j].ptr

\* C3: once execution has begun, a call that fails is reported as failed and
\* execution goes on: the run ends only after every deferred call was issued,
\* in the order recorded, whatever the outcomes of the earlier calls.
C3_FailureDoesNotHalt ==
    mode = "script" =>
        \A k \in 1..Len(invoked) :
            invoked[k].outcome = "Err" =>
                /\ out[k].kind = "failed"
                /\ pc \in {"interpret", "done"}
                /\ pc = "done" => Len(invoked) = Len(calls)
                /\ \A j \in 1..Len(invoked) :
                      /\ invoked[j].sysno = calls[j].sysno
                      /\ invoked[j].args = calls[j].args

C3_Witness ==
    /\ mode = "script"
    /\ pc = "done"
    /\ Len(invoked) >= 2
    /\ invoked[1].outcome = "Err"
    /\ invoked[2].outcome = "Ok"

\* A file of two syscall statements, the first valid, the second with a syscall
\* number the table does not know.
TwoStatementsSecondUnknown ==
    /\ mode = "script"
    /\ Len(file) = 2
    /\ StatementTokens(Tokenize(file[1]))
    /\ IdOf(Tokenize(file[1])) \in SysnoTable
    /\ ArgCount(Tokenize(file[1])) <= 6
    /\ StatementTokens(Tokenize(file[2]))
    /\ IdOf(Tokenize(file[2])) \notin SysnoTable
    /\ ArgCount(Tokenize(file[2])) <= 6

\* C4 (as claimed): with a second statement whose syscall number is unknown, the
\* first statement is still issued and its result reported.
C4_FirstStillRuns ==
    (TwoStatementsSecondUnknown /\ pc \in {"done", "panicked"}) =>
        /\ Len(invoked) >= 1
        /\ invoked[1].sysno = IdOf(Tokenize(file[1]))
        /\ Len(out) >= 1

\* C4 (amended): with a second statement whose syscall number is unknown, the
\* scan aborts on the second line, and neither statement is issued or reported.
C4_UnknownIdAbortsBeforeAnyCall ==
    TwoStatementsSecondUnknown =>
        /\ pc = "panicked"
        /\ invoked = <<>>
        /\ out = <<>>

C4_Witness ==
    /\ TwoStatementsSecondUnknown
    /\ pc = "panicked"
    /\ Len(calls) = 1

\* C5 (as claimed): a syscall statement with 0 arguments after the syscall
\* number, or with 8, records no deferred call; one with exactly 6 arguments is
\* recorded with its 6 arguments.
C5_ArgumentCountBounds ==
    mode = "script" =>
        \A i \in 1..Len(file) :
            LET toks == Tokenize(file[i])
            IN  (~IsComment(file[i]) /\ StatementTokens(toks)
                   /\ IdOf(toks) \in SysnoTable) =>
                    /\ ArgCount(toks) \in {0, 8} => ~Recorded(i)
                    /\ ArgCount(toks) = 6 =>
                          Recorded(i) /\ Len(CallOfLine(i).args) = 6

\* C6 (as claimed): a negative numeric literal -k is cast to the word 2^w - k,
\* as the command-line token n:-k and as a Number token of a script statement.
C6_NegativeReinterpreted ==
    /\ mode = "cli" =>
          \A i \in 1..Len(CliTokens) :
              IsNegativeArg(CliTokens[i]) =>
                  /\ Len(cast_args) >= i
                  /\ cast_args[i] = NumWord(2 ^ WordBits - ParseDigits(CliTokens[i], 4, 0))
    /\ mode = "script" =>
          \A i \in 1..Len(file) :
              LET toks == Tokenize(file[i])
              IN  (~IsComment(file[i]) /\ ~HasError(toks) /\ Len(toks) = 3
                     /\ toks[1].kind = "Syscall" /\ toks[2].kind = "Number"
                     /\ IdOf(toks) \in SysnoTable /\ IsNegativeToken(toks[3])) =>
                      /\ Recorded(i)
                      /\ CallOfLine(i).args =
                            <<NumWord(2 ^ WordBits - ParseDigits(toks[3].slice, 2, 0))>>

\* C7 (as claimed): with more than 6 argument tokens the call is issued with
\* the words of the first 6, whatever the tokens after the sixth are.
C7_ExtraTokensHaveNoEffect ==
    (/\ mode = "cli"
     /\ pc \in {"done", "cli_err"}
     /\ Len(CliTokens) > 6
     /\ \A i \in 1..6 : Castable(CliTokens[i])) =>
        /\ Len(invoked) = 1
        /\ ResolveAll(invoked[1].args, heap) = [i \in 1..6 |-> ExpectedWord(CliTokens[i])]

\* C7 (amended): with more than 6 argument tokens, a call that is issued carries
\* exactly the words of the first 6 tokens, in order; when any token, one after
\* the sixth included, fails to cast, no call is issued.
C7_TruncatedToFirstSix ==
    (mode = "cli" /\ Len(CliTokens) > 6) =>
        /\ invoked # <<>> =>
              /\ Len(invoked) = 1
              /\ invoked[1].sysno = ParseUsize(argv[1])
              /\ ResolveAll(invoked[1].args, heap)
                    = [i \in 1..6 |-> ExpectedWord(CliTokens[i])]
        /\ (\E i \in 1..Len(CliTokens) : ~Castable(CliTokens[i])) =>
              invoked = <<>> /\ pc = "cli_err"

C7_Witness ==
    /\ mode = "cli"
    /\ pc = "done"
    /\ Len(CliTokens) > 6
    /\ Len(invoked) = 1
    /\ invoked[1].args[1] # invoked[1].args[2]

\* C8 (as claimed): every non-comment line without the keyword, malformed text
\* included, records no call and does not abort the scan.
C8_NoKeywordLineSkipped ==
    mode = "script" =>
        \A i \in 1..Len(file) :
            NoKeywordLine(file[i]) => ~AbortedAt(i) /\ ~Recorded(i)

\* C8 (amended): a non-comment line without the keyword that tokenizes records
\* no call and does not abort the scan, whatever its numbers and strings are; one
\* that does not tokenize aborts the scan.
C8_TokenizableNoKeywordLineSkipped ==
    mode = "script" =>
        \A i \in 1..Len(file) :
            NoKeywordLine(file[i]) =>
                /\ ~Recorded(i)
                /\ ~HasError(Tokenize(file[i])) => ~AbortedAt(i)
                /\ HasError(Tokenize(file[i])) => AbortedAt(i)

C8_Witness ==
    /\ mode = "script"
    /\ pc = "done"
    /\ Len(file) = 3
    /\ Recorded(1)
    /\ NoKeywordLine(file[2]) /\ Len(Tokenize(file[2])) >= 1
    /\ Recorded(3)
    /\ Len(invoked) = 2

\* C9 (as claimed): the line number reported with a call's return value is the
\* 1-based number of the line the statement is on.
C9_ReportedLineIsSourceLine ==
    mode = "script" =>
        \A k \in 1..Len(out) :
            out[k].kind = "returned" => out[k].line = StatementLines(file, 1)[k]

\* C10 (as claimed): a call is recorded only for a line whose first token is the
\* keyword, and its syscall number is the Number token right after the keyword.
C10_KeywordFirst ==
    mode = "script" =>
        \A k \in 1..Len(calls) :
            LET toks == Tokenize(file[calls[k].line])
            IN  /\ toks[1].kind = "Syscall"
                /\ toks[2].kind = "Number"
                /\ calls[k].sysno = IdOf(toks)

====
